---- MODULE Spec2Model ----
(***************************************************************************)
(* hpsahba (src/main.c): a command line tool that queries an HP Smart      *)
(* Array controller through the CCISS passthrough ioctl.                    *)
(*                                                                         *)
(* The module models one run of main() as a state machine and the pure     *)
(* helpers fill_cmd, print_cmd_error, trim / print_info_str_buf and        *)
(* is_hba_mode_supported as operators.  A behaviour of Spec is either a    *)
(* run of main() on a command line of up to MaxArgs arguments, or one call *)
(* of a helper on an argument drawn from a bounded input set.              *)
(*                                                                         *)
(* Strings that the code inspects byte by byte are sequences of byte       *)
(* values (0 is NUL); a C index i is the TLA+ index i + 1.                 *)
(***************************************************************************)
EXTENDS Integers, Sequences, FiniteSets, TLC

VARIABLES
    argv,           \* argv[1..argc-1] as tokens
    optind,         \* getopt's scan position in argv (1-based)
    nonopts,        \* non-option arguments getopt has skipped (permuted to the end)
    action,         \* enum cli_action
    path,           \* const char *path
    fd,             \* int fd
    pc,             \* position of main()
    exit_status,    \* -1 while running, else the process's exit status
    events,         \* what the run did so far, in order
    cmd,            \* the IOCTL_Command_struct of the last really_exec_cmd
    rc,             \* the ioctl return code of the last really_exec_cmd
    dump,           \* what print_cmd_error rendered (if it ran)
    controller_id,      \* struct bmic_identify_controller (the fields read)
    controller_params,  \* struct bmic_controller_parameters (the fields read)
    report,         \* the values of the report lines written to stdout
    fatal,          \* the parts of the FATAL ERROR message, if one was written
    host_be,        \* the build's byte order: TRUE on a big-endian host
    call,           \* a helper called on its own: the call
    ret             \* a helper called on its own: its result

mainvars == <<argv, optind, nonopts, action, path, fd, pc, exit_status, events,
              cmd, rc, dump, controller_id, controller_params, report, fatal, host_be>>
unitvars == <<call, ret>>
vars == <<argv, optind, nonopts, action, path, fd, pc, exit_status, events,
          cmd, rc, dump, controller_id, controller_params, report, fatal, host_be,
          call, ret>>

(***************************************************************************)
(* Bounds of the model.                                                    *)
(***************************************************************************)
MaxArgs == 3        \* command lines of up to MaxArgs arguments
TrimLen == 4        \* print_info_str_buf on every field of TrimLen bytes
MaxOver == 2        \* buffer sizes up to UINT16_MAX + MaxOver
MaxSmall == 3       \* buffer sizes from 0 to MaxSmall

(***************************************************************************)
(* Integer helpers.                                                        *)
(***************************************************************************)
RECURSIVE BitAnd(_, _)
BitAnd(a, b) ==
    IF a = 0 \/ b = 0 THEN 0
    ELSE (IF a % 2 = 1 /\ b % 2 = 1 THEN 1 ELSE 0) + 2 * BitAnd(a \div 2, b \div 2)

ShiftRight(a, n) == a \div (2 ^ n)

UINT16_MAX == 2 ^ 16 - 1
U8(x) == x % 256            \* conversion to uint8_t
U16(x) == x % 65536         \* conversion to WORD (unsigned short)

Zeros(n) == [i \in 1 .. n |-> 0]

(***************************************************************************)
(* Constants of linux/cciss_defs.h and of the repository's hpsa.h.         *)
(***************************************************************************)
BMIC_READ == 38                             \* 0x26
BMIC_WRITE == 39                            \* 0x27
XFER_WRITE == 1
XFER_READ == 2
TYPE_CMD == 0
ATTR_SIMPLE == 4
SENSEINFOBYTES == 32                        \* sizeof(info->SenseInfo)
CDB_LEN == 16                               \* sizeof(cmd->Request.CDB)

BMIC_IDENTIFY_CONTROLLER == 17              \* 0x11
BMIC_SENSE_CONTROLLER_PARAMETERS == 100     \* 0x64
YET_MORE_CTLR_FLAG_HBA_MODE_SUPP == <<2, 0, 0, 0>>     \* 1 << 25
VENDOR_ID_LEN == 8
PRODUCT_ID_LEN == 16
FIRMWARE_REV_LEN == 4
SOFTWARE_NAME_LEN == 64
HARDWARE_NAME_LEN == 32
MAX_STR_BUF_LEN == 64
SizeofIdentifyController == 512             \* sizeof(struct bmic_identify_controller)
SizeofControllerParameters == 256           \* sizeof(struct bmic_controller_parameters)

CmdName(cmd_num) ==
    IF cmd_num = BMIC_IDENTIFY_CONTROLLER THEN "BMIC_IDENTIFY_CONTROLLER"
    ELSE IF cmd_num = BMIC_SENSE_CONTROLLER_PARAMETERS
         THEN "BMIC_SENSE_CONTROLLER_PARAMETERS"
         ELSE "?"

(***************************************************************************)
(* set_cdb_buf_size, set_cmd_buf, fill_cmd.  A failed assert() aborts the  *)
(* process: the result carries aborted = TRUE and the command as it was    *)
(* when the assertion tripped.                                             *)
(***************************************************************************)
ZeroErrorInfo ==
    [ScsiStatus |-> 0, SenseLen |-> 0, CommandStatus |-> 0, ResidualCnt |-> 0,
     SenseInfo |-> Zeros(SENSEINFOBYTES)]

ZeroCmd ==
    [CDB |-> Zeros(CDB_LEN), CDBLen |-> 0,
     Type |-> [Type |-> 0, Attribute |-> 0, Direction |-> 0],
     Timeout |-> 0, buf_size |-> 0, error_info |-> ZeroErrorInfo]

\* set_cdb_buf_size writing the low byte first.
SetCdbBufSize_LowFirst(cdb, size) ==
    IF size <= UINT16_MAX
    THEN [aborted |-> FALSE,
          cdb |-> [cdb EXCEPT ![8] = U8(BitAnd(size, 255)),
                              ![9] = U8(ShiftRight(size, 8))]]
    ELSE [aborted |-> TRUE, cdb |-> cdb]

SetCdbBufSize(cdb, size) ==
    IF size <= UINT16_MAX
    THEN [aborted |-> FALSE,
          cdb |-> [cdb EXCEPT ![8] = U8(ShiftRight(size, 8)),
                              ![9] = U8(BitAnd(size, 255))]]
    ELSE [aborted |-> TRUE, cdb |-> cdb]

SetCmdBuf(c, size) ==
    LET s == SetCdbBufSize(c.CDB, size) IN
    IF s.aborted
    THEN [aborted |-> TRUE, cmd |-> c]
    ELSE [aborted |-> FALSE,
          cmd |-> [c EXCEPT !.CDB = s.cdb, !.buf_size = U16(size)]]

Recognized(cmd_num) ==
    cmd_num \in {BMIC_IDENTIFY_CONTROLLER, BMIC_SENSE_CONTROLLER_PARAMETERS}

\* fill_cmd taking the commands for writes.
DirectionWrite_Set(cmd_num) == 1

DirectionWrite(cmd_num) == 0

FillCmd(c, cmd_num, size) ==
    IF ~Recognized(cmd_num)
    THEN [aborted |-> TRUE, cmd |-> c]
    ELSE LET c1 == [c EXCEPT !.CDB[7] = cmd_num]
             c2 == IF DirectionWrite(cmd_num) # 0
                   THEN [c1 EXCEPT !.CDB[1] = BMIC_WRITE,
                                   !.Type.Direction = XFER_WRITE]
                   ELSE [c1 EXCEPT !.CDB[1] = BMIC_READ,
                                   !.Type.Direction = XFER_READ]
             s == SetCmdBuf(c2, size)
         IN  IF s.aborted
             THEN s
             ELSE [aborted |-> FALSE,
                   cmd |-> [s.cmd EXCEPT !.CDBLen = 10,
                                         !.Type.Type = TYPE_CMD,
                                         !.Type.Attribute = ATTR_SIMPLE,
                                         !.Timeout = 0]]

(***************************************************************************)
(* print_cmd_error: the indices of SenseInfo the loop reads, in order, and *)
(* whether the " <none>" marker is written.                                *)
(***************************************************************************)
RECURSIVE SenseLoop(_, _)
SenseLoop(i, sense_len) ==
    IF i < sense_len THEN <<i>> \o SenseLoop(i + 1, sense_len) ELSE <<>>

\* print_cmd_error without the clamp.
ClampSenseLen_Missing(sense_len) == sense_len

ClampSenseLen(sense_len) ==
    IF sense_len > SENSEINFOBYTES THEN SENSEINFOBYTES ELSE sense_len

PrintCmdError(info) ==
    LET sense_len == info.SenseLen IN
    IF sense_len # 0
    THEN [rendered |-> TRUE, none |-> FALSE,
          reads |-> SenseLoop(0, ClampSenseLen(sense_len))]
    ELSE [rendered |-> TRUE, none |-> TRUE, reads |-> <<>>]

NoDump == [rendered |-> FALSE, none |-> FALSE, reads |-> <<>>]

(***************************************************************************)
(* Byte order.  A 32-bit field of a response record holds its four wire    *)
(* bytes (little-endian); the host loads them in its own byte order and    *)
(* le32toh() swaps on a big-endian host only.  A uint32_t value is written *)
(* as its four bytes, most significant first (the digits of "%08x").       *)
(***************************************************************************)
HostLoad32(b, be) ==
    IF be THEN <<b[1], b[2], b[3], b[4]>> ELSE <<b[4], b[3], b[2], b[1]>>

Bswap32(x) == <<x[4], x[3], x[2], x[1]>>

\* le32toh() left out: the loaded value used as it is.
Le32toh_Missing(x, be) == x

Le32toh(x, be) == IF be THEN Bswap32(x) ELSE x

BitAnd32(x, y) == [i \in 1 .. 4 |-> BitAnd(x[i], y[i])]

Zero32 == <<0, 0, 0, 0>>

IsHbaModeSupported(cid, be) ==
    LET f == Le32toh(HostLoad32(cid.yet_more_controller_flags, be), be) IN
    IF BitAnd32(f, YET_MORE_CTLR_FLAG_HBA_MODE_SUPP) # Zero32 THEN 1 ELSE 0

(***************************************************************************)
(* trim, strncpy, print_info_str_buf.  isspace() is that of the "C"        *)
(* locale (the program never calls setlocale): space, \t, \n, \v, \f, \r;  *)
(* no byte above 127 is a space there.                                     *)
(* A char pointer is a buffer with a 0-based offset into it.               *)
(***************************************************************************)
IsSpace(c) == c \in {32, 9, 10, 11, 12, 13}

\* strlen(str + p): the number of bytes before the first NUL.
Strlen(str, p) ==
    CHOOSE n \in 0 .. Len(str) - p - 1 :
        /\ str[p + n + 1] = 0
        /\ \A k \in 0 .. n - 1 : str[p + k + 1] # 0

\* The C string at str + p.
CStr(str, p) == [k \in 1 .. Strlen(str, p) |-> str[p + k]]

\* while (isspace(*str)) str++;  the first offset from p on that holds no space
SkipLeading(str, p) ==
    CHOOSE q \in p .. Len(str) - 1 :
        /\ ~IsSpace(str[q + 1])
        /\ \A k \in p .. q - 1 : IsSpace(str[k + 1])

\* trim cutting one trailing space only (an if for the loop).
CutTrailing_Once(str, p, n) ==
    IF n # 0 /\ IsSpace(str[p + n]) THEN [str EXCEPT ![p + n] = 0] ELSE str

\* for (i = strlen(str); i && isspace(str[i - 1]); i--) str[i - 1] = '\0';
\* the loop stops at the largest i <= n that is 0 or follows a non-space, and
\* has zeroed the bytes i .. n - 1 of str + p.
CutTrailing(str, p, n) ==
    LET stop == CHOOSE i \in 0 .. n :
                    /\ i = 0 \/ ~IsSpace(str[p + i])
                    /\ \A k \in i + 1 .. n : IsSpace(str[p + k])
    IN  [j \in 1 .. Len(str) |-> IF j > p + stop /\ j <= p + n THEN 0 ELSE str[j]]

Trim(str, p) ==
    LET q == SkipLeading(str, p) IN
    [str |-> CutTrailing(str, q, Strlen(str, q)), p |-> q]

\* strncpy(dst, src, n): copies the bytes of src before its first NUL, at most
\* n of them, and pads dst with NULs up to n bytes.
StrncpyFrom(dst, src, n, k) ==
    LET m == IF \E i \in k .. n : src[i] = 0
             THEN CHOOSE i \in k .. n : src[i] = 0 /\ \A h \in k .. i - 1 : src[h] # 0
             ELSE n + 1
    IN  [i \in 1 .. Len(dst) |->
            IF i < k \/ i > n THEN dst[i] ELSE IF i < m THEN src[i] ELSE 0]

Strncpy(dst, src, n) == StrncpyFrom(dst, src, n, 1)

\* The scratch buffer print_info_str_buf hands to trim.
ScratchBuf(str_buf, max_str_len) ==
    Strncpy(Zeros(MAX_STR_BUF_LEN + 1), str_buf, max_str_len)

\* The value print_info_str_buf prints between the quotes.
PrintInfoStrBuf(str_buf, max_str_len) ==
    LET t == Trim(ScratchBuf(str_buf, max_str_len), 0) IN CStr(t.str, t.p)

PrintInfoFwRev(rev_buf) == PrintInfoStrBuf(rev_buf, FIRMWARE_REV_LEN)

(***************************************************************************)
(* The environment: command lines, and what the device answers.            *)
(***************************************************************************)
NULL == "NULL"
Tokens == {"-h", "-v", "-i", "-x", "/dev/sg0"}
OptionTokens == {"-h", "-v", "-i", "-x"}
ArgvSet == UNION {[1 .. n -> Tokens] : n \in 0 .. MaxArgs}

Pad(s, n) == [i \in 1 .. n |-> IF i <= Len(s) THEN s[i] ELSE 32]

ACME == Pad(<<65, 67, 77, 69>>, VENDOR_ID_LEN)                   \* "ACME    "
HP_X == <<32, 32, 72, 80, 32, 32, 88, 32>>                       \* "  HP  X "

ZeroControllerId ==
    [vendor_id |-> Zeros(VENDOR_ID_LEN), product_id |-> Zeros(PRODUCT_ID_LEN),
     board_id |-> Zeros(4), running_firm_rev |-> Zeros(FIRMWARE_REV_LEN),
     rom_firm_rev |-> Zeros(FIRMWARE_REV_LEN),
     rec_rom_inactive_rev |-> Zeros(FIRMWARE_REV_LEN),
     yet_more_controller_flags |-> Zeros(4)]

ZeroControllerParams ==
    [software_name |-> Zeros(SOFTWARE_NAME_LEN),
     hardware_name |-> Zeros(HARDWARE_NAME_LEN)]

FlagsSamples == {<<0, 0, 0, 0>>, <<0, 0, 0, 2>>, <<2, 0, 0, 0>>, <<255, 255, 255, 253>>}

IdentifyResponses ==
    {[vendor_id |-> v, product_id |-> Pad(<<80, 52, 49, 48>>, PRODUCT_ID_LEN),
      board_id |-> <<60, 16, 67, 50>>,
      running_firm_rev |-> <<54, 46, 54, 52>>,
      rom_firm_rev |-> <<54, 46, 54, 48>>,
      rec_rom_inactive_rev |-> <<32, 32, 0, 0>>,
      yet_more_controller_flags |-> f] : v \in {ACME, HP_X}, f \in FlagsSamples}

SenseResponses ==
    {[software_name |-> Pad(<<83, 87>>, SOFTWARE_NAME_LEN),
      hardware_name |-> Pad(<<32, 72, 87>>, HARDWARE_NAME_LEN)]}

SenseInfoPattern == [i \in 1 .. SENSEINFOBYTES |-> 111 + i]

ErrorInfos ==
    {[ScsiStatus |-> 2, SenseLen |-> n, CommandStatus |-> st, ResidualCnt |-> 0,
      SenseInfo |-> SenseInfoPattern] : n \in {0, 3, 40}, st \in {0, 1}}

EmptyReport ==
    [VENDOR_ID |-> <<>>, PRODUCT_ID |-> <<>>, BOARD_ID |-> <<>>,
     SOFTWARE_NAME |-> <<>>, HARDWARE_NAME |-> <<>>, RUNNING_FIRM_REV |-> <<>>,
     ROM_FIRM_REV |-> <<>>, REC_ROM_INACTIVE_REV |-> <<>>,
     YET_MORE_CONTROLLER_FLAGS |-> <<>>, HBA_MODE_SUPPORTED |-> -1]

\* print_info with the two flag lines exchanged.
ReportLines_Swapped ==
    <<"VENDOR_ID", "PRODUCT_ID", "BOARD_ID", "SOFTWARE_NAME", "HARDWARE_NAME",
      "RUNNING_FIRM_REV", "ROM_FIRM_REV", "REC_ROM_INACTIVE_REV",
      "HBA_MODE_SUPPORTED", "YET_MORE_CONTROLLER_FLAGS">>

ReportLines ==
    <<"VENDOR_ID", "PRODUCT_ID", "BOARD_ID", "SOFTWARE_NAME", "HARDWARE_NAME",
      "RUNNING_FIRM_REV", "ROM_FIRM_REV", "REC_ROM_INACTIVE_REV",
      "YET_MORE_CONTROLLER_FLAGS", "HBA_MODE_SUPPORTED">>

(***************************************************************************)
(* getopt(argc, argv, ":hvi:") with opterr = 0, as glibc implements it:    *)
(* non-option arguments are skipped (permuted behind the options), so that *)
(* argc > optind once it has returned -1 iff one was skipped.  An argument  *)
(* is one token: an option letter on its own, or a word that is no option. *)
(***************************************************************************)
RECURSIVE Getopt(_, _)
Getopt(av, ind) ==
    IF ind > Len(av)
    THEN [opt |-> "-1", optarg |-> NULL, optind |-> ind, skipped |-> 0]
    ELSE LET t == av[ind] IN
         IF t = "-h" THEN [opt |-> "h", optarg |-> NULL, optind |-> ind + 1, skipped |-> 0]
         ELSE IF t = "-v"
         THEN [opt |-> "v", optarg |-> NULL, optind |-> ind + 1, skipped |-> 0]
         ELSE IF t = "-i"
         THEN IF ind + 1 <= Len(av)
              THEN [opt |-> "i", optarg |-> av[ind + 1], optind |-> ind + 2, skipped |-> 0]
              ELSE [opt |-> ":", optarg |-> NULL, optind |-> ind + 1, skipped |-> 0]
         ELSE IF t \in OptionTokens
         THEN [opt |-> "?", optarg |-> NULL, optind |-> ind + 1, skipped |-> 0]
         ELSE LET r == Getopt(av, ind + 1) IN [r EXCEPT !.skipped = @ + 1]

(***************************************************************************)
(* main()                                                                  *)
(***************************************************************************)
MainInit ==
    /\ argv \in ArgvSet
    /\ host_be \in BOOLEAN
    /\ optind = 1
    /\ nonopts = 0
    /\ action = "ACTION_UNKNOWN"
    /\ path = NULL
    /\ fd = -1
    /\ pc = "getopt"
    /\ exit_status = -1
    /\ events = <<>>
    /\ cmd = ZeroCmd
    /\ rc = 0
    /\ dump = NoDump
    /\ controller_id = ZeroControllerId
    /\ controller_params = ZeroControllerParams
    /\ report = EmptyReport
    /\ fatal = <<>>

NoCall == [fn |-> "none"]
NoRet == [done |-> FALSE]

\* really_die ending the process with exit(0).
Die_ExitZero(ev, msg) ==
    /\ events' = events \o ev
    /\ fatal' = msg
    /\ pc' = "done"
    /\ exit_status' = 0

\* really_die: the FATAL ERROR line, then exit(1).
Die(ev, msg) ==
    /\ events' = events \o ev
    /\ fatal' = msg
    /\ pc' = "done"
    /\ exit_status' = 1

\* One iteration of the option loop, by what getopt returns.
GetoptCall == Getopt(argv, optind)

OptEnd ==
    /\ pc = "getopt" /\ GetoptCall.opt = "-1"
    /\ optind' = GetoptCall.optind
    /\ nonopts' = nonopts + GetoptCall.skipped
    /\ pc' = "check_args"
    /\ UNCHANGED <<argv, action, path, fd, exit_status, events, cmd, rc, dump,
                   controller_id, controller_params, report, fatal, host_be, call, ret>>

OptH ==
    /\ pc = "getopt" /\ GetoptCall.opt = "h"
    /\ optind' = GetoptCall.optind
    /\ nonopts' = nonopts + GetoptCall.skipped
    /\ action' = "ACTION_HELP"
    /\ UNCHANGED <<argv, path, fd, pc, exit_status, events, cmd, rc, dump,
                   controller_id, controller_params, report, fatal, host_be, call, ret>>

OptV ==
    /\ pc = "getopt" /\ GetoptCall.opt = "v"
    /\ optind' = GetoptCall.optind
    /\ nonopts' = nonopts + GetoptCall.skipped
    /\ action' = "ACTION_VERSION"
    /\ UNCHANGED <<argv, path, fd, pc, exit_status, events, cmd, rc, dump,
                   controller_id, controller_params, report, fatal, host_be, call, ret>>

OptI ==
    /\ pc = "getopt" /\ GetoptCall.opt = "i"
    /\ optind' = GetoptCall.optind
    /\ nonopts' = nonopts + GetoptCall.skipped
    /\ action' = "ACTION_INFO"
    /\ path' = GetoptCall.optarg
    /\ UNCHANGED <<argv, fd, pc, exit_status, events, cmd, rc, dump,
                   controller_id, controller_params, report, fatal, host_be, call, ret>>

OptUnknown ==
    /\ pc = "getopt" /\ GetoptCall.opt = "?"
    /\ optind' = GetoptCall.optind
    /\ nonopts' = nonopts + GetoptCall.skipped
    /\ Die(<<"FATAL_unknown_option">>, <<"Unknown command line option">>)
    /\ UNCHANGED <<argv, action, path, fd, cmd, rc, dump,
                   controller_id, controller_params, report, host_be, call, ret>>

OptMissing ==
    /\ pc = "getopt" /\ GetoptCall.opt = ":"
    /\ optind' = GetoptCall.optind
    /\ nonopts' = nonopts + GetoptCall.skipped
    /\ Die(<<"FATAL_missing_argument">>, <<"Missing argument for option">>)
    /\ UNCHANGED <<argv, action, path, fd, cmd, rc, dump,
                   controller_id, controller_params, report, host_be, call, ret>>

\* if (argc > optind) die(...)
CheckArgs ==
    /\ pc = "check_args"
    /\ IF nonopts > 0
       THEN Die(<<"FATAL_invalid_argument">>, <<"Invalid argument in command line">>)
       ELSE /\ pc' = "open"
            /\ UNCHANGED <<exit_status, events, fatal>>
    /\ UNCHANGED <<argv, optind, nonopts, action, path, fd, cmd, rc, dump,
                   controller_id, controller_params, report, host_be, call, ret>>

\* if (path != NULL) fd = open_dev(path);
NeedsOpen == path # NULL

OpenDev ==
    /\ pc = "open"
    /\ IF NeedsOpen
       THEN \E ok \in BOOLEAN :
                IF ok
                THEN /\ fd' = 3
                     /\ events' = Append(events, "open")
                     /\ pc' = "dispatch"
                     /\ UNCHANGED <<exit_status, fatal>>
                ELSE /\ Die(<<"FATAL_open">>, <<path, "Unable to open device r/w">>)
                     /\ fd' = fd
       ELSE /\ pc' = "dispatch"
            /\ UNCHANGED <<fd, exit_status, events, fatal>>
    /\ UNCHANGED <<argv, optind, nonopts, action, path, cmd, rc, dump,
                   controller_id, controller_params, report, host_be, call, ret>>

PrintHelp ==
    /\ pc = "dispatch" /\ action = "ACTION_HELP"
    /\ events' = Append(events, "help")
    /\ pc' = "close"
    /\ UNCHANGED <<argv, optind, nonopts, action, path, fd, exit_status, cmd, rc,
                   dump, controller_id, controller_params, report, fatal, host_be, call, ret>>

PrintVersion ==
    /\ pc = "dispatch" /\ action = "ACTION_VERSION"
    /\ events' = Append(events, "version")
    /\ pc' = "close"
    /\ UNCHANGED <<argv, optind, nonopts, action, path, fd, exit_status, cmd, rc,
                   dump, controller_id, controller_params, report, fatal, host_be, call, ret>>

NoOption ==
    /\ pc = "dispatch" /\ action = "ACTION_UNKNOWN"
    /\ Die(<<"FATAL_no_option">>, <<"No option selected">>)
    /\ UNCHANGED <<argv, optind, nonopts, action, path, fd, cmd, rc,
                   dump, controller_id, controller_params, report, host_be, call, ret>>

(***************************************************************************)
(* really_exec_cmd: fill_cmd, the ioctl (return code r, error record e     *)
(* left in cmd.error_info), and the two fatal checks.  next is where       *)
(* main() continues when the command succeeded.                            *)
(***************************************************************************)
SubmitEvent(cmd_num) ==
    IF cmd_num = BMIC_IDENTIFY_CONTROLLER THEN "submit_identify" ELSE "submit_sense"

\* really_exec_cmd not looking at the ioctl's return code.
TransportFailed_Ignored(r) == FALSE

TransportFailed(r) == r # 0
CommandFailed(e) == e.CommandStatus # 0

ReallyExecCmd(cmd_num, size, next) ==
    LET f == FillCmd(ZeroCmd, cmd_num, size) IN
    IF f.aborted
    THEN /\ cmd' = f.cmd
         /\ events' = Append(events, "abort")
         /\ pc' = "done"
         /\ exit_status' = 134
         /\ UNCHANGED <<rc, dump, fatal>>
    ELSE \E r \in {-1, 0}, e \in ErrorInfos :
            /\ rc' = r
            /\ cmd' = [f.cmd EXCEPT !.error_info = e]
            /\ IF TransportFailed(r)
               THEN /\ Die(<<SubmitEvent(cmd_num), "FATAL_ioctl">>,
                           <<path, "ioctl(CCISS_PASSTHRU) failed with command",
                             CmdName(cmd_num)>>)
                    /\ dump' = dump
               ELSE IF CommandFailed(e)
               THEN /\ dump' = PrintCmdError(e)
                    /\ Die(<<SubmitEvent(cmd_num), "errdump", "FATAL_cmd">>,
                           <<path, "Command", CmdName(cmd_num), "failed">>)
               ELSE /\ events' = Append(events, SubmitEvent(cmd_num))
                    /\ pc' = next
                    /\ UNCHANGED <<dump, fatal, exit_status>>

\* print_info, first command: identify_controller(path, fd, &controller_id)
IdentifyController ==
    /\ pc = "dispatch" /\ action = "ACTION_INFO"
    /\ ReallyExecCmd(BMIC_IDENTIFY_CONTROLLER, SizeofIdentifyController, "sense")
    /\ IF pc' = "sense"
       THEN controller_id' \in IdentifyResponses
       ELSE controller_id' = controller_id
    /\ UNCHANGED <<argv, optind, nonopts, action, path, fd, controller_params,
                   report, host_be, call, ret>>

\* print_info, second command: sense_controller_parameters(...)
SenseControllerParameters ==
    /\ pc = "sense"
    /\ ReallyExecCmd(BMIC_SENSE_CONTROLLER_PARAMETERS, SizeofControllerParameters,
                     "report")
    /\ IF pc' = "report"
       THEN controller_params' \in SenseResponses
       ELSE controller_params' = controller_params
    /\ UNCHANGED <<argv, optind, nonopts, action, path, fd, controller_id,
                   report, host_be, call, ret>>

\* print_info, the values of the ten printf lines.
PrintInfoReport(cid, params, be) ==
    [VENDOR_ID |-> PrintInfoStrBuf(cid.vendor_id, VENDOR_ID_LEN),
     PRODUCT_ID |-> PrintInfoStrBuf(cid.product_id, PRODUCT_ID_LEN),
     BOARD_ID |-> Le32toh(HostLoad32(cid.board_id, be), be),
     SOFTWARE_NAME |-> PrintInfoStrBuf(params.software_name, SOFTWARE_NAME_LEN),
     HARDWARE_NAME |-> PrintInfoStrBuf(params.hardware_name, HARDWARE_NAME_LEN),
     RUNNING_FIRM_REV |-> PrintInfoFwRev(cid.running_firm_rev),
     ROM_FIRM_REV |-> PrintInfoFwRev(cid.rom_firm_rev),
     REC_ROM_INACTIVE_REV |-> PrintInfoFwRev(cid.rec_rom_inactive_rev),
     YET_MORE_CONTROLLER_FLAGS |->
         Le32toh(HostLoad32(cid.yet_more_controller_flags, be), be),
     HBA_MODE_SUPPORTED |-> IsHbaModeSupported(cid, be)]

PrintInfoLines ==
    /\ pc = "report"
    /\ report' = PrintInfoReport(controller_id, controller_params, host_be)
    /\ events' = events \o ReportLines
    /\ pc' = "close"
    /\ UNCHANGED <<argv, optind, nonopts, action, path, fd, exit_status, cmd, rc,
                   dump, controller_id, controller_params, fatal, host_be, call, ret>>

\* if (fd != -1) close_dev(path, fd); return 0;
\* main returning without close_dev.
NeedsClose_Never == FALSE

NeedsClose == fd # -1

CloseDev ==
    /\ pc = "close"
    /\ IF NeedsClose
       THEN \E ok \in BOOLEAN :
                IF ok
                THEN /\ events' = Append(events, "close")
                     /\ pc' = "done"
                     /\ exit_status' = 0
                     /\ fatal' = fatal
                ELSE Die(<<"close_failed", "FATAL_close">>, <<path, "close() failed">>)
       ELSE /\ pc' = "done"
            /\ exit_status' = 0
            /\ UNCHANGED <<events, fatal>>
    /\ UNCHANGED <<argv, optind, nonopts, action, path, fd, cmd, rc, dump,
                   controller_id, controller_params, report, host_be, call, ret>>

(***************************************************************************)
(* The helpers on their own: the initial state draws one call from a       *)
(* bounded input set, the action applies the helper and keeps its result.  *)
(***************************************************************************)
BufSizes ==
    (0 .. MaxSmall) \cup {255, 256, 257, 4660}
        \cup (UINT16_MAX - 1 .. UINT16_MAX + MaxOver)

ByteSamples == {0, 1, 2, 253, 255}
TrimAlphabet == {0, 9, 32, 65, 200}

FillCmdCalls == [fn : {"fill_cmd"}, cmd_num : 0 .. 255, size : BufSizes]

PrintCmdErrorCalls ==
    {[fn |-> "print_cmd_error",
      info |-> [ScsiStatus |-> 2, SenseLen |-> n, CommandStatus |-> 1,
                ResidualCnt |-> 0, SenseInfo |-> SenseInfoPattern]] : n \in 0 .. 255}

TrimCalls ==
    {[fn |-> "print_info_str_buf", str_buf |-> b, max_str_len |-> Len(b)] :
        b \in [1 .. TrimLen -> TrimAlphabet] \cup {ACME, HP_X}}

HbaCalls ==
    [fn : {"is_hba_mode_supported"}, flags : [1 .. 4 -> ByteSamples], be : BOOLEAN]

UnitInit ==
    /\ argv = <<>>
    /\ host_be = FALSE
    /\ optind = 1
    /\ nonopts = 0
    /\ action = "ACTION_UNKNOWN"
    /\ path = NULL
    /\ fd = -1
    /\ pc = "unit"
    /\ exit_status = -1
    /\ events = <<>>
    /\ cmd = ZeroCmd
    /\ rc = 0
    /\ dump = NoDump
    /\ controller_id = ZeroControllerId
    /\ controller_params = ZeroControllerParams
    /\ report = EmptyReport
    /\ fatal = <<>>
    /\ call \in FillCmdCalls \cup PrintCmdErrorCalls \cup TrimCalls \cup HbaCalls
    /\ ret = NoRet

CallFillCmd ==
    /\ pc = "unit" /\ call.fn = "fill_cmd" /\ ~ret.done
    /\ LET f == FillCmd(ZeroCmd, call.cmd_num, call.size) IN
       ret' = [done |-> TRUE, aborted |-> f.aborted, cmd |-> f.cmd]
    /\ UNCHANGED <<mainvars, call>>

CallPrintCmdError ==
    /\ pc = "unit" /\ call.fn = "print_cmd_error" /\ ~ret.done
    /\ ret' = [done |-> TRUE, dump |-> PrintCmdError(call.info)]
    /\ UNCHANGED <<mainvars, call>>

\* print_info_str_buf up to its call of trim, and trim applied to its own result.
CallTrim ==
    /\ pc = "unit" /\ call.fn = "print_info_str_buf" /\ ~ret.done
    /\ LET str == ScratchBuf(call.str_buf, call.max_str_len)
           once == Trim(str, 0)
       IN  ret' = [done |-> TRUE, str |-> str, once |-> once,
                   twice |-> Trim(once.str, once.p),
                   printed |-> PrintInfoStrBuf(call.str_buf, call.max_str_len)]
    /\ UNCHANGED <<mainvars, call>>

CallIsHbaModeSupported ==
    /\ pc = "unit" /\ call.fn = "is_hba_mode_supported" /\ ~ret.done
    /\ LET cid == [ZeroControllerId EXCEPT !.yet_more_controller_flags = call.flags] IN
       ret' = [done |-> TRUE, value |-> IsHbaModeSupported(cid, call.be),
               report |-> PrintInfoReport(cid, ZeroControllerParams, call.be)]
    /\ UNCHANGED <<mainvars, call>>

Init == (MainInit /\ call = NoCall /\ ret = NoRet) \/ UnitInit

Next ==
    \/ OptEnd \/ OptH \/ OptV \/ OptI \/ OptUnknown \/ OptMissing
    \/ CheckArgs \/ OpenDev
    \/ PrintHelp \/ PrintVersion \/ NoOption
    \/ IdentifyController \/ SenseControllerParameters \/ PrintInfoLines
    \/ CloseDev
    \/ CallFillCmd \/ CallPrintCmdError \/ CallTrim \/ CallIsHbaModeSupported

Spec == Init /\ [][Next]_vars

(***************************************************************************)
(* Vocabulary of the properties.                                           *)
(***************************************************************************)
Count(e) == Cardinality({i \in DOMAIN events : events[i] = e})
Has(e) == \E i \in DOMAIN events : events[i] = e
Last(e) == events # <<>> /\ events[Len(events)] = e
Exited == pc = "done"

ReportLineSet == {ReportLines[i] : i \in DOMAIN ReportLines}
ResultOutput == {"help", "version"} \cup ReportLineSet
WroteResult == \E i \in DOMAIN events : events[i] \in ResultOutput
WroteReportLine == \E i \in DOMAIN events : events[i] \in ReportLineSet
DeviceEvents == {"open", "FATAL_open", "submit_identify", "submit_sense", "close",
                 "close_failed"}
CloseCalls == Count("close") + Count("close_failed")
Submits == Count("submit_identify") + Count("submit_sense")
ActionSelected == pc \in {"check_args", "open", "dispatch", "sense", "report", "close"}
                  \/ (Exited /\ ~Has("FATAL_unknown_option")
                             /\ ~Has("FATAL_missing_argument"))

TheReport ==
    <<"VENDOR_ID", "PRODUCT_ID", "BOARD_ID", "SOFTWARE_NAME", "HARDWARE_NAME",
      "RUNNING_FIRM_REV", "ROM_FIRM_REV", "REC_ROM_INACTIVE_REV",
      "YET_MORE_CONTROLLER_FLAGS", "HBA_MODE_SUPPORTED">>

\* The requested action ran to its end: its whole output is written.
ActionComplete ==
    \/ action = "ACTION_HELP" /\ Count("help") = 1
    \/ action = "ACTION_VERSION" /\ Count("version") = 1
    \/ action = "ACTION_INFO" /\ \A i \in DOMAIN TheReport : Count(TheReport[i]) = 1

(***************************************************************************)
(* C1 (as stated), for the info action: a run that has written result      *)
(* output (the info report) never ends with a nonzero exit status.  The    *)
(* code violates it: close_dev dies after the report is written.           *)
(***************************************************************************)
C1_AsStated == Exited /\ exit_status # 0 /\ action = "ACTION_INFO" => ~WroteResult

(***************************************************************************)
(* C1 (amended): a run that exits 0 has completed its action fully and     *)
(* met no fatal condition; a run that exits nonzero has written no result  *)
(* output, except when the fatal condition is the failure of close() in    *)
(* close_dev, which comes after the complete output of the action.         *)
(***************************************************************************)
C1_Amended ==
    /\ Exited /\ exit_status = 0 => ActionComplete /\ fatal = <<>>
    /\ Exited /\ exit_status # 0 =>
          /\ fatal # <<>>
          /\ WroteResult => /\ Last("FATAL_close")
                            /\ ActionComplete
                            /\ events[Len(events) - 1] = "close_failed"
                            /\ events[Len(events) - 2] \in ResultOutput

C1_Witness == Exited /\ exit_status = 1 /\ WroteResult /\ Last("FATAL_close")

(***************************************************************************)
(* C2 (as stated): once the option loop has selected help, version or no   *)
(* action, the device is never opened, no passthrough command is submitted *)
(* and the device is never closed.  The code violates it: main opens the   *)
(* device whenever a path was given (-i <path> -h).                        *)
(***************************************************************************)
C2_AsStated ==
    ActionSelected /\ action # "ACTION_INFO" =>
        /\ fd = -1
        /\ \A i \in DOMAIN events : events[i] \notin DeviceEvents

(***************************************************************************)
(* C3 (as stated): the device is opened at most once, and every run that   *)
(* opened it has closed it exactly once when the process exits, on fatal   *)
(* terminations as well.  The code violates it: a fatal really_exec_cmd    *)
(* exits without close_dev.                                                *)
(***************************************************************************)
C3_AsStated ==
    /\ Count("open") <= 1
    /\ Exited /\ Has("open") => CloseCalls = 1

(***************************************************************************)
(* C3 (amended): the device is opened at most once and close_dev is called *)
(* at most once, only after the open and as the last step; every run that  *)
(* opened the device and exits 0 has closed it exactly once; a run that    *)
(* dies in really_exec_cmd exits without calling close_dev.                *)
(***************************************************************************)
C3_Amended ==
    /\ Count("open") <= 1
    /\ CloseCalls <= 1
    /\ CloseCalls = 1 => Has("open") /\ Exited
    /\ Exited /\ exit_status = 0 /\ Has("open") => Count("close") = 1 /\ Last("close")
    /\ Exited /\ (Has("FATAL_ioctl") \/ Has("FATAL_cmd")) =>
          Has("open") /\ CloseCalls = 0 /\ exit_status = 1

C3_Witness == Exited /\ Has("open") /\ Has("FATAL_cmd") /\ CloseCalls = 0

(***************************************************************************)
(* C4: a run of the info action that exits 0 has done exactly: open,       *)
(* identify, sense, the ten report lines in their fixed order, close; and  *)
(* at any time a report line is written only after both commands were      *)
(* submitted and succeeded.                                                *)
(***************************************************************************)
C4_InfoOrder ==
    /\ Exited /\ exit_status = 0 /\ action = "ACTION_INFO" =>
          events = <<"open", "submit_identify", "submit_sense">> \o TheReport
                       \o <<"close">>
    /\ WroteReportLine =>
          /\ Len(events) >= 13
          /\ SubSeq(events, 1, 3) = <<"open", "submit_identify", "submit_sense">>
          /\ SubSeq(events, 4, 13) = TheReport
          /\ rc = 0 /\ cmd.error_info.CommandStatus = 0
          /\ ~dump.rendered

C4_Witness ==
    Exited /\ exit_status = 0 /\ action = "ACTION_INFO" /\ Len(events) = 14

(***************************************************************************)
(* C5: a step of really_exec_cmd whose ioctl returns nonzero ends the run  *)
(* with the FATAL ERROR line and renders no error dump; one whose ioctl    *)
(* returns 0 with a nonzero CommandStatus renders the dump, then the FATAL *)
(* ERROR line naming the command, and ends the run; the run continues only *)
(* when both are 0.  After either failure nothing more is submitted and no *)
(* report line is written.                                                 *)
(***************************************************************************)
ExecState == (pc = "dispatch" /\ action = "ACTION_INFO") \/ pc = "sense"
ExecName == IF pc = "sense" THEN "BMIC_SENSE_CONTROLLER_PARAMETERS"
            ELSE "BMIC_IDENTIFY_CONTROLLER"
ExecSubmit == IF pc = "sense" THEN "submit_sense" ELSE "submit_identify"

C5_ExecStep ==
    ExecState =>
        /\ rc' # 0 =>
              /\ events' = events \o <<ExecSubmit, "FATAL_ioctl">>
              /\ fatal' = <<path, "ioctl(CCISS_PASSTHRU) failed with command", ExecName>>
              /\ dump' = dump /\ ~dump'.rendered
              /\ pc' = "done" /\ exit_status' = 1
        /\ rc' = 0 /\ cmd'.error_info.CommandStatus # 0 =>
              /\ events' = events \o <<ExecSubmit, "errdump", "FATAL_cmd">>
              /\ dump'.rendered
              /\ fatal' = <<path, "Command", ExecName, "failed">>
              /\ pc' = "done" /\ exit_status' = 1
        /\ rc' = 0 /\ cmd'.error_info.CommandStatus = 0 =>
              /\ events' = Append(events, ExecSubmit)
              /\ pc' \in {"sense", "report"} /\ exit_status' = -1
              /\ dump' = dump

C5_AfterFailure ==
    Has("FATAL_ioctl") \/ Has("FATAL_cmd") =>
        /\ Exited /\ exit_status = 1
        /\ Last("FATAL_ioctl") \/ Last("FATAL_cmd")
        /\ ~WroteReportLine
        /\ Has("FATAL_ioctl") => ~Has("errdump")
        /\ Has("FATAL_cmd") => events[Len(events) - 1] = "errdump"
        /\ events[Len(events) - (IF Has("errdump") THEN 2 ELSE 1)]
               \in {"submit_identify", "submit_sense"}

C5_ExecFailures == [][C5_ExecStep]_vars /\ []C5_AfterFailure

C5_Witness == Exited /\ Last("FATAL_cmd") /\ dump.rendered /\ Has("submit_sense")

(***************************************************************************)
(* C6: is_hba_mode_supported returns 1 iff the HBA-mode-supported bit      *)
(* (bit 25 of the little-endian wire value, that is bit 1 of the fourth    *)
(* wire byte) is set, whatever the other bits and the host's byte order,   *)
(* and 0 otherwise; the HBA_MODE_SUPPORTED report line carries that value. *)
(***************************************************************************)
WireHbaBit(b) == (b[4] \div 2) % 2

C6_HbaModeSupported ==
    /\ ret.done /\ call.fn = "is_hba_mode_supported" =>
          /\ ret.value = WireHbaBit(call.flags)
          /\ ret.report.HBA_MODE_SUPPORTED = WireHbaBit(call.flags)
    /\ WroteReportLine =>
          report.HBA_MODE_SUPPORTED = WireHbaBit(controller_id.yet_more_controller_flags)

C6_Witness ==
    /\ ret.done /\ call.fn = "is_hba_mode_supported"
    /\ call.flags = <<253, 255, 255, 2>> /\ call.be
    /\ ret.value = 1

(***************************************************************************)
(* C7: for a recognized opcode and a buffer size of at most 65535,         *)
(* fill_cmd stores the size in CDB[7] (high byte) and CDB[8] (low byte)    *)
(* and in buf_size; a larger size trips the assertion and nothing of it is *)
(* stored.                                                                 *)
(***************************************************************************)
C7_BufSize ==
    /\ ret.done /\ call.fn = "fill_cmd" /\ Recognized(call.cmd_num) =>
          IF call.size <= 65535
          THEN /\ ~ret.aborted
               /\ ret.cmd.CDB[8] * 256 + ret.cmd.CDB[9] = call.size
               /\ ret.cmd.CDB[8] \in 0 .. 255 /\ ret.cmd.CDB[9] \in 0 .. 255
               /\ ret.cmd.buf_size = call.size
          ELSE /\ ret.aborted
               /\ ret.cmd.CDB[8] = 0 /\ ret.cmd.CDB[9] = 0 /\ ret.cmd.buf_size = 0
    /\ Submits > 0 =>
          /\ cmd.CDB[8] * 256 + cmd.CDB[9] = cmd.buf_size
          /\ cmd.buf_size = (IF Has("submit_sense") THEN SizeofControllerParameters
                             ELSE SizeofIdentifyController)

C7_Witness ==
    /\ ret.done /\ call.fn = "fill_cmd" /\ Recognized(call.cmd_num)
    /\ call.size = 4660 /\ ret.cmd.CDB[8] = 18 /\ ret.cmd.CDB[9] = 52

(***************************************************************************)
(* C8: print_cmd_error lists min(SenseLen, capacity of SenseInfo) sense    *)
(* bytes, those at indices 0, 1, ... in order, never one at or past the    *)
(* capacity, and writes the <none> marker iff SenseLen is 0.               *)
(***************************************************************************)
Min(a, b) == IF a < b THEN a ELSE b

SenseDumpOk(d, info) ==
    /\ Len(d.reads) = Min(info.SenseLen, 32)
    /\ \A k \in DOMAIN d.reads : d.reads[k] = k - 1 /\ d.reads[k] < Len(info.SenseInfo)
    /\ d.none <=> info.SenseLen = 0

C8_SenseClamp ==
    /\ ret.done /\ call.fn = "print_cmd_error" => SenseDumpOk(ret.dump, call.info)
    /\ dump.rendered => SenseDumpOk(dump, cmd.error_info)

C8_Witness ==
    /\ ret.done /\ call.fn = "print_cmd_error"
    /\ call.info.SenseLen = 3 /\ ret.dump.reads = <<0, 1, 2>>

(***************************************************************************)
(* C9: for both recognized opcodes fill_cmd builds a read command (CDB[0]  *)
(* BMIC_READ, direction XFER_READ) with CDB[6] the opcode, CDBLen 10, type *)
(* TYPE_CMD, attribute ATTR_SIMPLE and timeout 0; any other opcode trips   *)
(* the assertion with nothing built; and no run of main() trips it.        *)
(***************************************************************************)
C9_FillCmd ==
    /\ ret.done /\ call.fn = "fill_cmd" =>
          IF call.cmd_num \in {BMIC_IDENTIFY_CONTROLLER, BMIC_SENSE_CONTROLLER_PARAMETERS}
          THEN call.size <= UINT16_MAX =>
                  /\ ~ret.aborted
                  /\ ret.cmd.CDB[1] = BMIC_READ
                  /\ ret.cmd.Type.Direction = XFER_READ
                  /\ ret.cmd.CDB[7] = call.cmd_num
                  /\ ret.cmd.CDBLen = 10
                  /\ ret.cmd.Type.Type = TYPE_CMD
                  /\ ret.cmd.Type.Attribute = ATTR_SIMPLE
                  /\ ret.cmd.Timeout = 0
          ELSE ret.aborted /\ ret.cmd = ZeroCmd
    /\ ~Has("abort") /\ exit_status # 134
    /\ Submits > 0 =>
          /\ cmd.CDB[7] = (IF Has("submit_sense") THEN BMIC_SENSE_CONTROLLER_PARAMETERS
                           ELSE BMIC_IDENTIFY_CONTROLLER)
          /\ cmd.CDB[1] = BMIC_READ /\ cmd.Type.Direction = XFER_READ
          /\ cmd.CDBLen = 10

C9_Witness ==
    /\ ret.done /\ call.fn = "fill_cmd" /\ ~ret.aborted
    /\ call.cmd_num = BMIC_SENSE_CONTROLLER_PARAMETERS
    /\ ret.cmd.CDB[7] = 100 /\ ret.cmd.CDB[1] = 38

(***************************************************************************)
(* C10: trim(trim(s)) = trim(s); a string of whitespace only trims to the  *)
(* empty string; the result neither starts nor ends with whitespace and is *)
(* s without a leading and a trailing run of whitespace, its interior      *)
(* unchanged; the vendor id field "ACME    " prints as ACME.               *)
(***************************************************************************)
Whitespace == {32, 9, 10, 11, 12, 13}

\* t is s without a leading and a trailing run of whitespace.
StrippedOf(t, s) ==
    \E i \in 0 .. Len(s) :
        /\ i + Len(t) <= Len(s)
        /\ \A k \in 1 .. i : s[k] \in Whitespace
        /\ \A k \in 1 .. Len(t) : t[k] = s[i + k]
        /\ \A k \in i + Len(t) + 1 .. Len(s) : s[k] \in Whitespace

C10_Trim ==
    ret.done /\ call.fn = "print_info_str_buf" =>
        LET s == CStr(ret.str, 0)
            t == CStr(ret.once.str, ret.once.p)
            tt == CStr(ret.twice.str, ret.twice.p)
        IN  /\ tt = t
            /\ (\A k \in DOMAIN s : s[k] \in Whitespace) => t = <<>>
            /\ t # <<>> => t[1] \notin Whitespace /\ t[Len(t)] \notin Whitespace
            /\ StrippedOf(t, s)
            /\ ret.printed = t
            /\ call.str_buf = <<65, 67, 77, 69, 32, 32, 32, 32>> =>
                   ret.printed = <<65, 67, 77, 69>>

C10_Witness ==
    /\ ret.done /\ call.fn = "print_info_str_buf"
    /\ call.str_buf = <<32, 65, 32, 32>>
    /\ CStr(ret.once.str, ret.once.p) = <<65>>
    /\ CStr(ret.twice.str, ret.twice.p) = <<65>>

====
